---- MODULE Spec2Model ----
(***************************************************************************)
(* A model of the Capital.com REST client in src/client.py: the client     *)
(* object (configuration, base URL, the two session tokens) and its eight  *)
(* operations.  The remote API is the environment: every operation sends   *)
(* one request and receives a response (status, headers, body text) that   *)
(* is drawn nondeterministically from a small set.                         *)
(***************************************************************************)
EXTENDS Integers, Sequences, FiniteSets, TLC

\* ---------------------------------------------------------------- bounds
\* stop/profit/level arguments range over 0..MaxLevel (and None)
MaxLevel == 1

\* ------------------------------------------------- Python values
\* Optional[...] : None is the empty tuple, a present value x is <<x>>
NoneV == <<>>
Some(x) == <<x>>

\* Every decoded JSON value / Python return value is one record shape.
PyNone == [t |-> "NoneType", s |-> "", l |-> <<>>, d |-> <<>>]
PyStr(x) == [t |-> "str", s |-> x, l |-> <<>>, d |-> <<>>]
PyList(q) == [t |-> "list", s |-> "", l |-> q, d |-> <<>>]
PyDict(f) == [t |-> "dict", s |-> "", l |-> <<>>, d |-> f]

\* Python truthiness (bool(v)) of a value
truthy(v) ==
  CASE v.t = "NoneType" -> FALSE
    [] v.t = "str" -> v.s # ""
    [] v.t = "list" -> v.l # <<>>
    [] v.t = "dict" -> DOMAIN v.d # {}

\* Python truthiness of an Optional[str] (None and "" are falsy)
truthy_opt(o) == o # NoneV /\ o[1] # ""

\* a or b
py_or(a, b) == IF truthy(a) THEN a ELSE b

\* dict.get(k): the value under k, None when the key is missing
dict_get(data, k) == IF k \in DOMAIN data.d THEN data.d[k] ELSE PyNone

\* float(x) of a number
float(x) == [float |-> x]

\* ------------------------------------------------- the remote's answers
\* one status of every class the code tells apart: below 200, 2xx, 3xx,
\* 4xx, 5xx, and 600 or more
Statuses == {101, 200, 304, 400, 500, 600}

CstValues == {"", "c1", "c2"}
TokenValues == {"", "s1"}

\* response header maps: each of the two token headers absent or set
ResponseHeaders ==
  { [k \in ks |-> IF k = "CST" THEN c ELSE s] :
      ks \in SUBSET {"CST", "X-SECURITY-TOKEN"}, c \in CstValues, s \in TokenValues }

\* response body texts
Texts == {
  "<html>Bad Gateway</html>",
  "[]",
  "{}",
  "{\"dealReference\": \"X\"}",
  "{\"dealReference\": \"\"}",
  "{\"markets\": [\"m1\"]}",
  "{\"content\": [\"c1\"]}",
  "{\"markets\": [], \"content\": [\"c1\"]}",
  "{\"markets\": [\"m1\"], \"content\": [\"c1\"]}" }

\* Response.json(): the decoded value of the body text, or a decoding error
json_loads(text) ==
  CASE text = "[]" -> [ok |-> TRUE, val |-> PyList(<<>>)]
    [] text = "{}" -> [ok |-> TRUE, val |-> PyDict(<<>>)]
    [] text = "{\"dealReference\": \"X\"}" ->
         [ok |-> TRUE, val |-> PyDict("dealReference" :> PyStr("X"))]
    [] text = "{\"dealReference\": \"\"}" ->
         [ok |-> TRUE, val |-> PyDict("dealReference" :> PyStr(""))]
    [] text = "{\"markets\": [\"m1\"]}" ->
         [ok |-> TRUE, val |-> PyDict("markets" :> PyList(<<"m1">>))]
    [] text = "{\"content\": [\"c1\"]}" ->
         [ok |-> TRUE, val |-> PyDict("content" :> PyList(<<"c1">>))]
    [] text = "{\"markets\": [], \"content\": [\"c1\"]}" ->
         [ok |-> TRUE, val |-> PyDict(("markets" :> PyList(<<>>)) @@ ("content" :> PyList(<<"c1">>)))]
    [] text = "{\"markets\": [\"m1\"], \"content\": [\"c1\"]}" ->
         [ok |-> TRUE, val |-> PyDict(("markets" :> PyList(<<"m1">>)) @@ ("content" :> PyList(<<"c1">>)))]
    [] OTHER -> [ok |-> FALSE, val |-> PyNone]

Response(status, headers, text) == [status_code |-> status, headers |-> headers, text |-> text]

\* answers to POST /session: the body is not read, the headers matter
LoginResponses == { Response(st, h, "{}") : st \in Statuses, h \in ResponseHeaders }
\* answers to every other call: the headers are not read, the body matters
DataResponses == { Response(st, <<>>, tx) : st \in Statuses, tx \in Texts }

\* headers.get(k)
headers_get(h, k) == IF k \in DOMAIN h THEN Some(h[k]) ELSE NoneV

\* ------------------------------------------------- exceptions
NoExc == [type |-> "None", msg |-> "", status |-> NoneV, data |-> PyNone, text |-> NoneV]
\* requests.HTTPError raised by raise_for_status: carries the response
HTTPError(resp) ==
  [type |-> "HTTPError", msg |-> "HTTPError", status |-> Some(resp.status_code),
   data |-> PyNone, text |-> Some(resp.text)]
\* RuntimeError(f"{msg} {status}: {data}")
RuntimeError(msg, status, data) ==
  [type |-> "RuntimeError", msg |-> msg, status |-> status, data |-> data, text |-> NoneV]
\* data.get on a decoded body that is not a dict
AttributeError ==
  [type |-> "AttributeError", msg |-> "object has no attribute 'get'", status |-> NoneV,
   data |-> PyNone, text |-> NoneV]

\* Response.raise_for_status(): TRUE when it raises HTTPError
raise_for_status(resp) == resp.status_code >= 400 /\ resp.status_code < 600

\* ------------------------------------------------- the client object
VARIABLES config, base_url, cst, security_token, login_succeeded, last

vars == <<config, base_url, cst, security_token, login_succeeded, last>>

Identifiers == {"user"}
ApiKeys == {"key1"}
Passwords == {"pw"}

CapitalConfig ==
  [identifier : Identifiers, api_key : ApiKeys, api_password : Passwords, use_demo : BOOLEAN]

DemoUrl == "https://demo-api-capital.backend-capital.com"
LiveUrl == "https://api-capital.backend-capital.com"

\* the client's fields as one record
Self == [config |-> config, base_url |-> base_url, cst |-> cst, security_token |-> security_token]

\* _headers adding each session header on its own token
_headers_each(self) ==
  LET h == "X-CAP-API-KEY" :> self.config.api_key
      hc == IF truthy_opt(self.cst) THEN ("CST" :> self.cst[1]) @@ h ELSE h
  IN IF truthy_opt(self.security_token)
     THEN ("X-SECURITY-TOKEN" :> self.security_token[1]) @@ hc
     ELSE hc

\* CapitalAPI._headers
_headers(self) ==
  LET h == "X-CAP-API-KEY" :> self.config.api_key
  IN IF truthy_opt(self.cst) /\ truthy_opt(self.security_token)
     THEN ("CST" :> self.cst[1]) @@ ("X-SECURITY-TOKEN" :> self.security_token[1]) @@ h
     ELSE h

\* {**self._headers(), "Content-Type": "application/json"}
json_headers(self) == ("Content-Type" :> "application/json") @@ _headers(self)

\* _json dropping the raw text of an undecodable body
_json_empty(resp) ==
  LET r == json_loads(resp.text)
  IN IF r.ok THEN r.val ELSE PyDict(<<>>)

\* CapitalAPI._json
_json(resp) ==
  LET r == json_loads(resp.text)
  IN IF r.ok THEN r.val ELSE PyDict("text" :> PyStr(resp.text))

\* one call of self.session.<method>(url, headers=..., params=..., json=..., timeout=15)
Request(method, url, headers, params, json) ==
  [method |-> method, url |-> url, headers |-> headers, params |-> params,
   json |-> json, timeout |-> 15]

\* result of an operation: the client afterwards, the requests it sent,
\* the exception it raised (NoExc when it returned) and its return value
Outcome(self, sent, exc, ret) == [self |-> self, sent |-> sent, exc |-> exc, ret |-> ret]

\* login accepting a response that carries either one of the two tokens
login_either_token(self, resp) ==
  LET url == self.base_url \o "/session"
      body == [identifier |-> self.config.identifier, password |-> self.config.api_password,
               encryptedPassword |-> FALSE]
      rq == Request("POST", url, json_headers(self), NoneV, body)
      c == headers_get(resp.headers, "CST")
      s == headers_get(resp.headers, "X-SECURITY-TOKEN")
      stored == [self EXCEPT !.cst = c, !.security_token = s]
  IN IF raise_for_status(resp)
     THEN Outcome(self, <<rq>>, HTTPError(resp), PyNone)
     ELSE IF ~(truthy_opt(c) \/ truthy_opt(s))
          THEN Outcome(stored, <<rq>>,
                       RuntimeError("Login OK, aber keine Tokens (CST/X-SECURITY-TOKEN) erhalten",
                                    NoneV, PyNone), PyNone)
          ELSE Outcome(stored, <<rq>>, NoExc, PyNone)

\* CapitalAPI.login
login(self, resp) ==
  LET url == self.base_url \o "/session"
      body == [identifier |-> self.config.identifier, password |-> self.config.api_password,
               encryptedPassword |-> FALSE]
      rq == Request("POST", url, json_headers(self), NoneV, body)
      c == headers_get(resp.headers, "CST")
      s == headers_get(resp.headers, "X-SECURITY-TOKEN")
      stored == [self EXCEPT !.cst = c, !.security_token = s]
  IN IF raise_for_status(resp)
     THEN Outcome(self, <<rq>>, HTTPError(resp), PyNone)
     ELSE IF ~(truthy_opt(c) /\ truthy_opt(s))
          THEN Outcome(stored, <<rq>>,
                       RuntimeError("Login OK, aber keine Tokens (CST/X-SECURITY-TOKEN) erhalten",
                                    NoneV, PyNone), PyNone)
          ELSE Outcome(stored, <<rq>>, NoExc, PyNone)

\* search_markets choosing by the presence of the key instead of by `or`
search_markets_by_key(self, search_term, resp) ==
  LET url == self.base_url \o "/markets"
      rq == Request("GET", url, _headers(self), [searchTerm |-> search_term], NoneV)
      data == _json(resp)
  IN IF raise_for_status(resp)
     THEN Outcome(self, <<rq>>, HTTPError(resp), PyNone)
     ELSE IF data.t # "dict"
          THEN Outcome(self, <<rq>>, AttributeError, PyNone)
          ELSE Outcome(self, <<rq>>, NoExc,
                       IF "markets" \in DOMAIN data.d THEN data.d["markets"]
                       ELSE IF "content" \in DOMAIN data.d THEN data.d["content"]
                       ELSE PyList(<<>>))

\* CapitalAPI.search_markets
search_markets(self, search_term, resp) ==
  LET url == self.base_url \o "/markets"
      rq == Request("GET", url, _headers(self), [searchTerm |-> search_term], NoneV)
      data == _json(resp)
  IN IF raise_for_status(resp)
     THEN Outcome(self, <<rq>>, HTTPError(resp), PyNone)
     ELSE IF data.t # "dict"
          THEN Outcome(self, <<rq>>, AttributeError, PyNone)
          ELSE Outcome(self, <<rq>>, NoExc,
                       py_or(py_or(dict_get(data, "markets"), dict_get(data, "content")),
                             PyList(<<>>)))

\* position_payload testing the truth of stop_level instead of `is not None`
position_payload_truthy(epic, direction, size, stop_level, profit_level, guaranteed_stop, trailing_stop) ==
  LET p0 == [epic |-> epic, direction |-> direction, size |-> size]
      p1 == IF stop_level # NoneV /\ stop_level[1] # 0
            THEN ("stopLevel" :> float(stop_level[1])) @@ p0 ELSE p0
      p2 == IF profit_level # NoneV THEN ("profitLevel" :> float(profit_level[1])) @@ p1 ELSE p1
      p3 == IF guaranteed_stop THEN ("guaranteedStop" :> TRUE) @@ p2 ELSE p2
      p4 == IF trailing_stop THEN ("trailingStop" :> TRUE) @@ p3 ELSE p3
  IN p4

\* the request body built by create_position
position_payload(epic, direction, size, stop_level, profit_level, guaranteed_stop, trailing_stop) ==
  LET p0 == [epic |-> epic, direction |-> direction, size |-> size]
      p1 == IF stop_level # NoneV THEN ("stopLevel" :> float(stop_level[1])) @@ p0 ELSE p0
      p2 == IF profit_level # NoneV THEN ("profitLevel" :> float(profit_level[1])) @@ p1 ELSE p1
      p3 == IF guaranteed_stop THEN ("guaranteedStop" :> TRUE) @@ p2 ELSE p2
      p4 == IF trailing_stop THEN ("trailingStop" :> TRUE) @@ p3 ELSE p3
  IN p4

\* create_position failing only from status 400 on
create_position_from_400(self, a, resp) ==
  LET url == self.base_url \o "/api/v1/positions"
      payload == position_payload(a.epic, a.direction, a.size, a.stop_level, a.profit_level,
                                  a.guaranteed_stop, a.trailing_stop)
      rq == Request("POST", url, json_headers(self), NoneV, payload)
      data == _json(resp)
      deal_ref == dict_get(data, "dealReference")
  IN IF resp.status_code >= 400
     THEN Outcome(self, <<rq>>,
                  RuntimeError("Create position failed", Some(resp.status_code), data), PyNone)
     ELSE IF data.t # "dict"
          THEN Outcome(self, <<rq>>, AttributeError, PyNone)
          ELSE IF ~truthy(deal_ref)
               THEN Outcome(self, <<rq>>,
                            RuntimeError("No dealReference in response", NoneV, data), PyNone)
               ELSE Outcome(self, <<rq>>, NoExc, deal_ref)

\* CapitalAPI.create_position
create_position(self, a, resp) ==
  LET url == self.base_url \o "/api/v1/positions"
      payload == position_payload(a.epic, a.direction, a.size, a.stop_level, a.profit_level,
                                  a.guaranteed_stop, a.trailing_stop)
      rq == Request("POST", url, json_headers(self), NoneV, payload)
      data == _json(resp)
      deal_ref == dict_get(data, "dealReference")
  IN IF resp.status_code >= 300
     THEN Outcome(self, <<rq>>,
                  RuntimeError("Create position failed", Some(resp.status_code), data), PyNone)
     ELSE IF data.t # "dict"
          THEN Outcome(self, <<rq>>, AttributeError, PyNone)
          ELSE IF ~truthy(deal_ref)
               THEN Outcome(self, <<rq>>,
                            RuntimeError("No dealReference in response", NoneV, data), PyNone)
               ELSE Outcome(self, <<rq>>, NoExc, deal_ref)

\* CapitalAPI.confirm
confirm(self, deal_reference, resp) ==
  LET url == self.base_url \o "/api/v1/confirms/" \o deal_reference
      rq == Request("GET", url, _headers(self), NoneV, NoneV)
  IN IF raise_for_status(resp)
     THEN Outcome(self, <<rq>>, HTTPError(resp), PyNone)
     ELSE Outcome(self, <<rq>>, NoExc, _json(resp))

\* CapitalAPI.list_positions
list_positions(self, resp) ==
  LET url == self.base_url \o "/api/v1/positions"
      rq == Request("GET", url, _headers(self), NoneV, NoneV)
  IN IF raise_for_status(resp)
     THEN Outcome(self, <<rq>>, HTTPError(resp), PyNone)
     ELSE Outcome(self, <<rq>>, NoExc, _json(resp))

\* close_position sending the request a second time after an error status
close_position_retry(self, deal_id, resp) ==
  LET url == self.base_url \o "/api/v1/positions/" \o deal_id
      rq == Request("DELETE", url, _headers(self), NoneV, NoneV)
  IN IF raise_for_status(resp)
     THEN Outcome(self, <<rq, rq>>, HTTPError(resp), PyNone)
     ELSE Outcome(self, <<rq>>, NoExc, _json(resp))

\* CapitalAPI.close_position (the first assignment to url is overwritten)
close_position(self, deal_id, resp) ==
  LET url == self.base_url \o "/api/v1/positions/" \o deal_id
      rq == Request("DELETE", url, _headers(self), NoneV, NoneV)
  IN IF raise_for_status(resp)
     THEN Outcome(self, <<rq>>, HTTPError(resp), PyNone)
     ELSE Outcome(self, <<rq>>, NoExc, _json(resp))

\* the request body built by create_working_order
working_order_payload(epic, direction, order_type, size, level, time_in_force, stop_level, profit_level) ==
  LET p0 == [epic |-> epic, direction |-> direction, orderType |-> order_type, size |-> size,
             level |-> float(level), timeInForce |-> time_in_force]
      p1 == IF stop_level # NoneV THEN ("stopLevel" :> float(stop_level[1])) @@ p0 ELSE p0
      p2 == IF profit_level # NoneV THEN ("profitLevel" :> float(profit_level[1])) @@ p1 ELSE p1
  IN p2

\* CapitalAPI.create_working_order
create_working_order(self, a, resp) ==
  LET url == self.base_url \o "/api/v1/workingorders"
      payload == working_order_payload(a.epic, a.direction, a.order_type, a.size, a.level,
                                       a.time_in_force, a.stop_level, a.profit_level)
      rq == Request("POST", url, json_headers(self), NoneV, payload)
      data == _json(resp)
      deal_ref == dict_get(data, "dealReference")
  IN IF resp.status_code >= 300
     THEN Outcome(self, <<rq>>,
                  RuntimeError("Create working order failed", Some(resp.status_code), data), PyNone)
     ELSE IF data.t # "dict"
          THEN Outcome(self, <<rq>>, AttributeError, PyNone)
          ELSE IF ~truthy(deal_ref)
               THEN Outcome(self, <<rq>>,
                            RuntimeError("No dealReference in response", NoneV, data), PyNone)
               ELSE Outcome(self, <<rq>>, NoExc, deal_ref)

\* CapitalAPI.delete_working_order
delete_working_order(self, deal_id, resp) ==
  LET url == self.base_url \o "/api/v1/workingorders/" \o deal_id
      rq == Request("DELETE", url, _headers(self), NoneV, NoneV)
  IN IF raise_for_status(resp)
     THEN Outcome(self, <<rq>>, HTTPError(resp), PyNone)
     ELSE Outcome(self, <<rq>>, NoExc, _json(resp))

\* ------------------------------------------------- arguments of the calls
Levels == {NoneV} \cup { Some(n) : n \in 0..MaxLevel }
SearchTerms == {"gold"}
DealIds == {"D1"}

PositionArgs ==
  [epic : {"GOLD"}, direction : {"BUY"}, size : {1}, stop_level : Levels, profit_level : Levels,
   guaranteed_stop : BOOLEAN, trailing_stop : BOOLEAN]

WorkingOrderArgs ==
  [epic : {"GOLD"}, direction : {"SELL"}, order_type : {"LIMIT"}, size : {1}, level : {1},
   time_in_force : {"GOOD_TILL_CANCELLED"}, stop_level : Levels, profit_level : Levels]

\* the calls made in the full state machine: all defaults, or a stop level of 0
SomePositionArgs ==
  { a \in PositionArgs : /\ a.stop_level \in {NoneV, Some(0)} /\ a.profit_level = NoneV
                         /\ ~a.guaranteed_stop /\ ~a.trailing_stop }
SomeWorkingOrderArgs ==
  { a \in WorkingOrderArgs : a.stop_level \in {NoneV, Some(0)} /\ a.profit_level = NoneV }

\* ------------------------------------------------- state machine
\* the record of the last operation invocation
Call(op, args, resp, o) ==
  [op |-> op, args |-> args, resp |-> resp, sent |-> o.sent, exc |-> o.exc, ret |-> o.ret]

\* CapitalAPI.__init__
Init ==
  /\ config \in CapitalConfig
  /\ base_url = IF config.use_demo THEN DemoUrl ELSE LiveUrl
  /\ cst = NoneV
  /\ security_token = NoneV
  /\ login_succeeded = FALSE
  /\ last = [op |-> "__init__", args |-> <<>>, resp |-> Response(200, <<>>, ""),
             sent |-> <<>>, exc |-> NoExc, ret |-> PyNone]

\* the client's fields become those of the outcome
Apply(op, args, resp, o) ==
  /\ config' = o.self.config
  /\ base_url' = o.self.base_url
  /\ cst' = o.self.cst
  /\ security_token' = o.self.security_token
  /\ login_succeeded' = (login_succeeded \/ (op = "login" /\ o.exc.type = "None"))
  /\ last' = Call(op, args, resp, o)

Login == \E resp \in LoginResponses : Apply("login", <<>>, resp, login(Self, resp))

SearchMarkets ==
  \E t \in SearchTerms, resp \in DataResponses :
    Apply("search_markets", [search_term |-> t], resp, search_markets(Self, t, resp))

CreatePositionWith(A, R) ==
  \E a \in A, resp \in R :
    Apply("create_position", a, resp, create_position(Self, a, resp))

CreatePosition == CreatePositionWith(SomePositionArgs, DataResponses)

Confirm ==
  \E d \in DealIds, resp \in DataResponses :
    Apply("confirm", [deal_reference |-> d], resp, confirm(Self, d, resp))

ListPositions ==
  \E resp \in DataResponses : Apply("list_positions", <<>>, resp, list_positions(Self, resp))

ClosePosition ==
  \E d \in DealIds, resp \in DataResponses :
    Apply("close_position", [deal_id |-> d], resp, close_position(Self, d, resp))

CreateWorkingOrderWith(A, R) ==
  \E a \in A, resp \in R :
    Apply("create_working_order", a, resp, create_working_order(Self, a, resp))

CreateWorkingOrder == CreateWorkingOrderWith(SomeWorkingOrderArgs, DataResponses)

DeleteWorkingOrder ==
  \E d \in DealIds, resp \in DataResponses :
    Apply("delete_working_order", [deal_id |-> d], resp, delete_working_order(Self, d, resp))

Next ==
  \/ Login
  \/ SearchMarkets
  \/ CreatePosition
  \/ Confirm
  \/ ListPositions
  \/ ClosePosition
  \/ CreateWorkingOrder
  \/ DeleteWorkingOrder

Spec == Init /\ [][Next]_vars

\* the two request-body builders on every combination of their optional arguments
\* (the body is built before the answer arrives: one accepted and one refused
\* status are enough here)
PayloadResponses == { r \in DataResponses : r.status_code \in {200, 400} }

CreatePositionAny == CreatePositionWith(PositionArgs, PayloadResponses)
CreateWorkingOrderAny == CreateWorkingOrderWith(WorkingOrderArgs, PayloadResponses)

NextPayload ==
  \/ CreatePositionAny
  \/ CreateWorkingOrderAny

SpecPayload == Init /\ [][NextPayload]_vars

\* ------------------------------------------------- vocabulary of the properties
SuccessStatus(st) == st >= 200 /\ st <= 299
ErrorStatus(st) == st >= 400 /\ st <= 599

Returned == last.exc.type = "None"

\* the error type login, create_position and create_working_order raise themselves
AuthenticationErrorType == "RuntimeError"
OrderErrorType == "RuntimeError"

CreateOps == {"create_position", "create_working_order"}
PassThroughOps == {"confirm", "list_positions", "close_position", "delete_working_order"}
RaisingOps == {"login", "search_markets"} \cup PassThroughOps

\* the body text is a JSON object
ObjectBody(resp) == json_loads(resp.text).ok /\ json_loads(resp.text).val.t = "dict"
\* the body text is not JSON at all
NonJsonBody(resp) == ~json_loads(resp.text).ok
\* the keys and values of an object body
BodyDict(resp) == json_loads(resp.text).val.d
\* the fallback structure carrying the raw text
Fallback(resp) == PyDict("text" :> PyStr(resp.text))

BothTokenHeaders(resp) ==
  /\ truthy_opt(headers_get(resp.headers, "CST"))
  /\ truthy_opt(headers_get(resp.headers, "X-SECURITY-TOKEN"))

HasSessionHeaders(rq) == {"CST", "X-SECURITY-TOKEN"} \subseteq DOMAIN rq.headers
HasNoSessionHeader(rq) == {"CST", "X-SECURITY-TOKEN"} \cap DOMAIN rq.headers = {}

\* ------------------------------------------------- C1
\* C1 (as stated): a login answered with a success status and both token
\* headers set returns and stores exactly the two values; with a success
\* status and a missing or empty header it fails with the authentication
\* error; with an error status it fails with that same authentication error.
C1_LoginSameErrorOnHttpFailure ==
  last.op = "login" =>
    /\ (SuccessStatus(last.resp.status_code) /\ BothTokenHeaders(last.resp)) =>
          /\ Returned
          /\ cst = Some(last.resp.headers["CST"])
          /\ security_token = Some(last.resp.headers["X-SECURITY-TOKEN"])
    /\ (SuccessStatus(last.resp.status_code) /\ ~BothTokenHeaders(last.resp)) =>
          last.exc.type = AuthenticationErrorType
    /\ ErrorStatus(last.resp.status_code) => last.exc.type = AuthenticationErrorType

\* C1 (amended): as above for the two success-status cases, the failure being
\* the RuntimeError login raises itself; with an error status (400..599)
\* login fails with the transport's HTTPError carrying the status code, which
\* is a different error type.
C1_LoginContract ==
  last.op = "login" =>
    /\ (SuccessStatus(last.resp.status_code) /\ BothTokenHeaders(last.resp)) =>
          /\ Returned
          /\ cst = Some(last.resp.headers["CST"])
          /\ security_token = Some(last.resp.headers["X-SECURITY-TOKEN"])
    /\ (SuccessStatus(last.resp.status_code) /\ ~BothTokenHeaders(last.resp)) =>
          /\ last.exc.type = "RuntimeError"
          /\ last.exc.status = NoneV
    /\ ErrorStatus(last.resp.status_code) =>
          /\ last.exc.type = "HTTPError"
          /\ last.exc.type # AuthenticationErrorType
          /\ last.exc.status = Some(last.resp.status_code)

\* a login rejected with an error status, after an earlier login stored tokens
C1_Witness ==
  /\ last.op = "login"
  /\ last.resp.status_code = 400
  /\ last.exc.type = "HTTPError"
  /\ cst = Some("c1")

\* ------------------------------------------------- C2
\* C2: both tokens are absent in the freshly constructed client, and once a
\* login has succeeded both tokens are present (non-empty) in every later
\* state, whatever operations follow.
C2_TokensHeldAfterLogin ==
  /\ last.op = "__init__" => (cst = NoneV /\ security_token = NoneV)
  /\ login_succeeded => (truthy_opt(cst) /\ truthy_opt(security_token))

\* ------------------------------------------------- C3
\* C3: every request carries X-CAP-API-KEY with the configured key; it
\* carries CST and X-SECURITY-TOKEN if and only if a login has succeeded
\* before the call; an operation is never blocked locally, it sends its
\* request even before any login.
C3_RequestHeaders ==
  [][ /\ Len(last'.sent) >= 1
      /\ \A i \in 1..Len(last'.sent) :
           /\ "X-CAP-API-KEY" \in DOMAIN last'.sent[i].headers
           /\ last'.sent[i].headers["X-CAP-API-KEY"] = config.api_key
           /\ login_succeeded => HasSessionHeaders(last'.sent[i])
           /\ ~login_succeeded => HasNoSessionHeader(last'.sent[i]) ]_vars

\* ------------------------------------------------- C4
\* C4 (as stated): create_position and create_working_order, for every
\* response: the call returns X exactly when the status is a success status
\* (200..299) and the body is a key-value document whose dealReference is
\* the non-empty X; it fails with the order error carrying the status code
\* when the status is an error code, and with the order error when the
\* status is a success status and the body has no dealReference; a failing
\* call returns no value.
C4_OrderErrorOnEveryFailure ==
  last.op \in CreateOps =>
    LET st == last.resp.status_code
        hasRef == /\ ObjectBody(last.resp)
                  /\ "dealReference" \in DOMAIN BodyDict(last.resp)
                  /\ truthy(BodyDict(last.resp)["dealReference"])
    IN /\ Returned <=> (SuccessStatus(st) /\ hasRef)
       /\ Returned => last.ret = BodyDict(last.resp)["dealReference"]
       /\ ErrorStatus(st) =>
            (last.exc.type = OrderErrorType /\ last.exc.status = Some(st))
       /\ (SuccessStatus(st) /\ ~hasRef) => last.exc.type = OrderErrorType
       /\ ~Returned => last.ret = PyNone

\* C4 (amended): for every response, the call returns X exactly when the
\* status is below 300 and the body is a JSON object whose dealReference is
\* the non-empty X; with a status of 300 or more it fails with the order
\* error carrying the status code and the decoded body; with a status below
\* 300 it fails with the order error when the body is a JSON object without
\* a non-empty dealReference or is not JSON at all, and with an
\* AttributeError when the body is JSON but not an object; a failing call
\* returns no value.
C4_DealReferenceContract ==
  last.op \in CreateOps =>
    LET st == last.resp.status_code
        hasRef == /\ ObjectBody(last.resp)
                  /\ "dealReference" \in DOMAIN BodyDict(last.resp)
                  /\ truthy(BodyDict(last.resp)["dealReference"])
        decoded == IF NonJsonBody(last.resp) THEN Fallback(last.resp)
                   ELSE json_loads(last.resp.text).val
    IN /\ Returned <=> (st < 300 /\ hasRef)
       /\ Returned => last.ret = BodyDict(last.resp)["dealReference"]
       /\ st >= 300 =>
            /\ last.exc.type = OrderErrorType
            /\ last.exc.status = Some(st)
            /\ last.exc.data = decoded
       /\ (st < 300 /\ ~hasRef /\ (ObjectBody(last.resp) \/ NonJsonBody(last.resp))) =>
            /\ last.exc.type = OrderErrorType
            /\ last.exc.msg = "No dealReference in response"
       /\ (st < 300 /\ ~ObjectBody(last.resp) /\ ~NonJsonBody(last.resp)) =>
            last.exc.type = "AttributeError"
       /\ ~Returned => last.ret = PyNone

\* create_position answered 200 with a JSON array: neither a value nor the
\* order error
C4_Witness ==
  /\ last.op = "create_position"
  /\ last.resp.status_code = 200
  /\ last.resp.text = "[]"
  /\ last.exc.type = "AttributeError"
  /\ last.ret = PyNone

\* ------------------------------------------------- C5
\* C5: the request body of create_position has exactly the keys epic,
\* direction, size, plus stopLevel iff stop_level is given, profitLevel iff
\* profit_level is given, guaranteedStop iff guaranteed_stop is set and
\* trailingStop iff trailing_stop is set; the body of create_working_order
\* has its six fixed keys plus stopLevel / profitLevel iff given.
C5_OptionalFields ==
  /\ last.op = "create_position" =>
       \A i \in 1..Len(last.sent) :
         DOMAIN last.sent[i].json =
           {"epic", "direction", "size"}
             \cup (IF last.args.stop_level # NoneV THEN {"stopLevel"} ELSE {})
             \cup (IF last.args.profit_level # NoneV THEN {"profitLevel"} ELSE {})
             \cup (IF last.args.guaranteed_stop THEN {"guaranteedStop"} ELSE {})
             \cup (IF last.args.trailing_stop THEN {"trailingStop"} ELSE {})
  /\ last.op = "create_working_order" =>
       \A i \in 1..Len(last.sent) :
         DOMAIN last.sent[i].json =
           {"epic", "direction", "orderType", "size", "level", "timeInForce"}
             \cup (IF last.args.stop_level # NoneV THEN {"stopLevel"} ELSE {})
             \cup (IF last.args.profit_level # NoneV THEN {"profitLevel"} ELSE {})

\* create_position with a stop level of 0 and the guaranteed-stop flag only
C5_Witness ==
  /\ last.op = "create_position"
  /\ Len(last.sent) = 1
  /\ last.args.stop_level = Some(0)
  /\ last.args.profit_level = NoneV
  /\ last.args.guaranteed_stop
  /\ ~last.args.trailing_stop
  /\ DOMAIN last.sent[1].json = {"epic", "direction", "size", "stopLevel", "guaranteedStop"}

\* ------------------------------------------------- C6
\* C6 (as stated): search_markets on a success response with an object body
\* returns the list under markets when the key is there, else the list under
\* content when that key is there, else the empty list, also when the list
\* under the key is empty.
C6_SearchByKeyPresence ==
  (last.op = "search_markets" /\ SuccessStatus(last.resp.status_code) /\ ObjectBody(last.resp)) =>
    LET d == BodyDict(last.resp)
    IN /\ Returned
       /\ "markets" \in DOMAIN d => last.ret = d["markets"]
       /\ ("markets" \notin DOMAIN d /\ "content" \in DOMAIN d) => last.ret = d["content"]
       /\ ("markets" \notin DOMAIN d /\ "content" \notin DOMAIN d) => last.ret = PyList(<<>>)

\* C6 (amended): search_markets on a success response with an object body
\* returns the list under markets when that list is non-empty; otherwise the
\* list under content when that key is there and its list is non-empty;
\* otherwise the empty list.
C6_SearchFirstNonEmpty ==
  (last.op = "search_markets" /\ SuccessStatus(last.resp.status_code) /\ ObjectBody(last.resp)) =>
    LET d == BodyDict(last.resp)
        m == "markets" \in DOMAIN d /\ d["markets"].l # <<>>
        c == "content" \in DOMAIN d /\ d["content"].l # <<>>
    IN /\ Returned
       /\ m => last.ret = d["markets"]
       /\ (~m /\ c) => last.ret = d["content"]
       /\ (~m /\ ~c) => last.ret = PyList(<<>>)

\* an empty markets list beside a non-empty content list: content is returned
C6_Witness ==
  /\ last.op = "search_markets"
  /\ last.resp.status_code = 200
  /\ last.resp.text = "{\"markets\": [], \"content\": [\"c1\"]}"
  /\ last.ret = PyList(<<"c1">>)

\* ------------------------------------------------- C7
\* C7 (as stated): every operation other than login, answered with a success
\* status and a body that is not JSON, returns the fallback structure
\* carrying the raw text and does not raise.
C7_FallbackReturnedByAll ==
  (last.op \in ({"search_markets"} \cup CreateOps \cup PassThroughOps)
     /\ SuccessStatus(last.resp.status_code) /\ NonJsonBody(last.resp)) =>
    (Returned /\ last.ret = Fallback(last.resp))

\* C7 (amended): answered with a success status and a body that is not JSON,
\* confirm, list_positions, close_position and delete_working_order return
\* the fallback structure carrying the raw text; search_markets returns the
\* empty list; create_position and create_working_order fail with their
\* missing-deal-reference error, which carries the fallback structure; no
\* operation raises another error.
C7_FallbackPerOperation ==
  (SuccessStatus(last.resp.status_code) /\ NonJsonBody(last.resp)) =>
    /\ last.op \in PassThroughOps => (Returned /\ last.ret = Fallback(last.resp))
    /\ last.op = "search_markets" => (Returned /\ last.ret = PyList(<<>>))
    /\ last.op \in CreateOps =>
         /\ last.exc.type = "RuntimeError"
         /\ last.exc.msg = "No dealReference in response"
         /\ last.exc.data = Fallback(last.resp)

\* create_position answered 200 with an HTML page
C7_Witness ==
  /\ last.op = "create_position"
  /\ last.resp.status_code = 200
  /\ last.resp.text = "<html>Bad Gateway</html>"
  /\ last.exc.type = "RuntimeError"

\* ------------------------------------------------- C8
\* C8: login, search_markets, confirm, list_positions, close_position and
\* delete_working_order fail, with a failure carrying the status code, on
\* every status outside 200..299, and do not fail on account of the status
\* on a status inside 200..299.
C8_RaisingOpsFailOutside2xx ==
  last.op \in RaisingOps =>
    /\ ~SuccessStatus(last.resp.status_code) =>
         (~Returned /\ last.exc.status = Some(last.resp.status_code))
    /\ SuccessStatus(last.resp.status_code) => last.exc.type # "HTTPError"

\* ------------------------------------------------- C9
\* C9: the configuration and the base URL never change; an operation other
\* than login leaves both tokens unchanged, whether it returns or fails; and
\* every invocation sends exactly one request.
C9_FrameAndSingleRequest ==
  [][ /\ Len(last'.sent) = 1
      /\ config' = config
      /\ base_url' = base_url
      /\ last'.op # "login" => (cst' = cst /\ security_token' = security_token) ]_vars

\* a close_position that failed on an error status while tokens are stored
C9_Witness ==
  /\ last.op = "close_position"
  /\ last.exc.type = "HTTPError"
  /\ Len(last.sent) = 1
  /\ cst = Some("c2")
  /\ security_token = Some("s1")

\* ------------------------------------------------- C10
\* C10: every request carries both session headers or neither, also when
\* exactly one token is stored; and a login that fails on an error status
\* leaves both stored tokens as they were.
C10_SessionHeadersAllOrNothing ==
  [][ /\ \A i \in 1..Len(last'.sent) :
           HasSessionHeaders(last'.sent[i]) \/ HasNoSessionHeader(last'.sent[i])
      /\ (last'.op = "login" /\ ErrorStatus(last'.resp.status_code)) =>
           (~(last'.exc.type = "None") /\ cst' = cst /\ security_token' = security_token) ]_vars

\* a request sent while only the CST token is stored
C10_Witness ==
  /\ last.op = "list_positions"
  /\ truthy_opt(cst)
  /\ ~truthy_opt(security_token)
  /\ Len(last.sent) = 1
  /\ HasNoSessionHeader(last.sent[1])
====
